---- MODULE Spec2Model ----
(***************************************************************************)
(* The CurveCP listener of server.go: readLoop, the packet pump            *)
(* (Hello -> Cookie, Initiate -> new conn / forward), Accept, Close and    *)
(* the minute-key rotation.                                                *)
(*                                                                         *)
(* Cryptography is symbolic.  A 32-byte value (a key) is a pair            *)
(* <<kind, n>>; a secret key of kind "c", "s", "a", "l", "z" has the       *)
(* public key of kind "C", "S", "A", "L", "Z" and the same n.  <<"z", 0>>  *)
(* is the all-zero 32 bytes.  Values drawn from crypto/rand are fresh      *)
(* (never equal to an earlier draw, never all-zero).  A box opens exactly  *)
(* under the key and nonce it was sealed with.                             *)
(*                                                                         *)
(* The 1280-byte response buffer of the Hello case is a sequence of        *)
(* 16-byte chunks, so that the overlapping copies of server.go:174-197     *)
(* are computed the way the code computes them.                            *)
(***************************************************************************)
EXTENDS Integers, Sequences, FiniteSets, TLC

\* ------------------------------------------------------------ bounds
NumClients == 2
MaxHellos == 1
MaxTicks == 2
MaxDomain == 4
RingCap == 3
MaxArg == 4
MaxBytes == 5
SlotSize == 2
MaxPooled == 3
MaxTime == 3
MaxIo == 3
MaxAdjust == 3
MaxGrid == 120
MaxDatagrams == 3

\* ------------------------------------------------- program constants
helloMagic == "QvnQ5XlH"
cookieMagic == "RL3aNMXK"
initiateMagic == "QvnQ5XlI"
messageMagic == "RL3aNMXM"

helloNoncePrefix == "CurveCP-client-H"
cookieNoncePrefix == "CurveCPK"
initiateNoncePrefix == "CurveCP-client-I"
vouchNoncePrefix == "CurveCPV"
minuteNoncePrefix == "minute-k"

MinPacketLen == 64
HelloLen == 224
InitiateMinLen == 544
CookieLen == 200

\* ------------------------------------------------- symbolic 32-byte values
Zero32 == <<"z", 0>>
Garbage32 == <<"g", 0>>

\* The public key of a secret key (curve25519 base-point multiplication).
Pub(sk) ==
  CASE sk[1] = "c" -> <<"C", sk[2]>>
    [] sk[1] = "s" -> <<"S", sk[2]>>
    [] sk[1] = "a" -> <<"A", sk[2]>>
    [] sk[1] = "l" -> <<"L", sk[2]>>
    [] sk[1] = "z" -> <<"Z", sk[2]>>
    [] OTHER -> <<"G", sk[2]>>

\* The secret key a public key belongs to.
SecretOf(pk) ==
  CASE pk[1] = "C" -> <<"c", pk[2]>>
    [] pk[1] = "S" -> <<"s", pk[2]>>
    [] pk[1] = "A" -> <<"a", pk[2]>>
    [] pk[1] = "L" -> <<"l", pk[2]>>
    [] pk[1] = "Z" -> <<"z", pk[2]>>
    [] OTHER -> <<"g", pk[2]>>

\* box.Precompute: the key shared by a public key and a secret key.
Precompute(pk, sk) == {SecretOf(pk), sk}

\* box.Seal / box.Open (nacl/box), symbolic.
boxSeal(message, nonce, peersPublicKey, privateKey) ==
  [k |-> Precompute(peersPublicKey, privateKey), nonce |-> nonce, pt |-> message]

boxOpen(b, nonce, peersPublicKey, privateKey) ==
  IF b.k = Precompute(peersPublicKey, privateKey) /\ b.nonce = nonce
  THEN [ok |-> TRUE, pt |-> b.pt]
  ELSE [ok |-> FALSE, pt |-> <<>>]

\* ------------------------------------------------- 16-byte chunks
ZeroChunk == [tag |-> "zero"]
KeyChunks(v) == << [tag |-> "key", v |-> v, part |-> 1],
                   [tag |-> "key", v |-> v, part |-> 2] >>
NonceChunk(t) == [tag |-> "nonce", v |-> t, part |-> 1]
SboxChunks(sb) == [i \in 1..5 |-> [tag |-> "sbox", sb |-> sb, part |-> i]]

\* The 32-byte value held by two adjacent chunks.
Unchunk32(c1, c2) ==
  IF c1.tag = "zero" /\ c2.tag = "zero" THEN Zero32
  ELSE IF c1.tag = "key" /\ c2.tag = "key" /\ c1.part = 1 /\ c2.part = 2
          /\ c1.v = c2.v THEN c1.v
  ELSE Garbage32

\* The 16-byte nonce tail held by one chunk.
Unchunk16(c) == IF c.tag = "nonce" THEN c.v ELSE <<"g", 0>>

\* copy(buf[from..], chunks), positions in chunks, 1-based.
CopyAt(buf, from, chunks) ==
  [i \in 1..Len(buf) |->
     IF i >= from /\ i < from + Len(chunks) THEN chunks[i - from + 1] ELSE buf[i]]

\* secretbox.Seal(out, message, nonce, key) appends the 80-byte box of the
\* 64-byte message to out: with out = buf[:outLen] it lands in the five
\* chunks after outLen.
secretboxSealAppend(buf, outLen, message, nonce, key) ==
  CopyAt(buf, outLen + 1,
         SboxChunks([key |-> key, nonce |-> nonce, pt |-> message]))

\* secretbox.Open of five chunks under nonce and key.
secretboxOpen(chunks, nonce, key) ==
  IF /\ Len(chunks) = 5
     /\ \A i \in 1..5 : chunks[i].tag = "sbox" /\ chunks[i].part = i
     /\ \A i \in 2..5 : chunks[i].sb = chunks[1].sb
     /\ chunks[1].sb.key = key
     /\ chunks[1].sb.nonce = nonce
  THEN [ok |-> TRUE, pt |-> chunks[1].sb.pt]
  ELSE [ok |-> FALSE, pt |-> <<>>]

\* ------------------------------------------------- domain names
\* strings.Join(ret, "."), strings being byte sequences ("." is 46).
RECURSIVE Join(_)
Join(labels) ==
  IF Len(labels) = 0 THEN <<>>
  ELSE IF Len(labels) = 1 THEN labels[1]
  ELSE labels[1] \o <<46>> \o Join(Tail(labels))

\* The loop of domainToString: ok = FALSE is the early return "".
RECURSIVE domainLabels(_, _)
domainLabels(d, ret) ==
  IF Len(d) = 0 THEN [ok |-> TRUE, labels |-> ret]
  ELSE LET l == d[1] IN
       IF l = 0 THEN [ok |-> TRUE, labels |-> ret]
       ELSE IF l > 63 \/ l > Len(d) - 1 THEN [ok |-> FALSE, labels |-> <<>>]
       ELSE domainLabels(SubSeq(d, l + 2, Len(d)), Append(ret, SubSeq(d, 2, l + 1)))

\* Returns the empty string (the empty sequence) if the domain isn't valid.
domainToString(d) ==
  LET r == domainLabels(d, <<>>) IN IF r.ok THEN Join(r.labels) ELSE <<>>

\* ------------------------------------------------- state
VARIABLES
  listen,             \* server.listen
  longTermSecretKey,  \* server.longTermSecretKey
  minuteKey,          \* server.minuteKey
  prevMinuteKey,      \* server.prevMinuteKey
  conns,              \* server.conns: client short-term key -> channel
  newConnClosed,      \* close(s.newConn) has run
  pc,                 \* where server.pump is: "select", blocked in
                      \* "publish" (s.newConn <- c) or "forward" (ch <- packet),
                      \* or "panic"
  pkt,                \* the packet server.pump holds while blocked
  fwd,                \* the channel of the blocked forward
  created,            \* the conns newConn has constructed, in order
  accepted,           \* the conns Accept has returned, in order
  sent,               \* the datagrams written to the socket
  born,               \* history: born[h] = rotations handled before Cookie h
  ticks,              \* history: rotations the pump has handled
  tickPending,        \* a tick waits in rotateMinuteKey.C (buffer of one)
  timerStopped,       \* rotateMinuteKey.Stop() has run
  stopTick,           \* history: rotations handled before the first stopListen
  ev                  \* history: the outcome of the datagram just read

vars == <<listen, longTermSecretKey, minuteKey, prevMinuteKey, conns,
          newConnClosed, pc, pkt, fwd, created, accepted, sent, born, ticks,
          tickPending, timerStopped, stopTick, ev>>

keys == <<longTermSecretKey, minuteKey, prevMinuteKey>>

NoPkt == [shape |-> "none"]
\* History: no datagram was read since the last step of the pump or Accept.
NoEv == [op |-> "none", res |-> "none", why |-> ""]
NoChan == 0

\* The server's long-term key pair (the key argument of Listen).
ServerLongTermSecret == <<"l", 1>>

\* ------------------------------------------------- checkHello
\* pb[144:] as a box: only a datagram laid out as a Hello holds one there.
HelloBoxAt(pb) ==
  IF pb.shape = "hello" THEN pb.hbox
  ELSE [k |-> {Garbage32}, nonce |-> <<"", <<"g", 0>>>>, pt |-> "garbage"]

\* checkHello without its test of s.listen.
checkHello_IgnoresListen(pb) ==
  IF pb.len # HelloLen \/ pb.magic # helloMagic THEN FALSE
  ELSE LET clientKey == pb.cpk
           nonce == <<helloNoncePrefix, pb.n8>>
       IN boxOpen(HelloBoxAt(pb), nonce, clientKey, longTermSecretKey).ok

checkHello(pb) ==
  IF ~listen \/ pb.len # HelloLen \/ pb.magic # helloMagic THEN FALSE
  ELSE LET clientKey == pb.cpk
           nonce == <<helloNoncePrefix, pb.n8>>
       IN boxOpen(HelloBoxAt(pb), nonce, clientKey, longTermSecretKey).ok

\* ------------------------------------------------- the Cookie of the Hello case
ScratchUsed == 9

\* CookieScratch with secretbox.Seal moved below the two header copies, so
\* that it seals what they have overwritten.
CookieScratch_SealsAfterCopies(pb, pkey, skey, minuteTail) ==
  LET s0 == [i \in 1..ScratchUsed |-> ZeroChunk]
      s1 == CopyAt(s0, 1, KeyChunks(pb.cpk))
      s2 == CopyAt(s1, 3, KeyChunks(skey))
      nonce == <<minuteNoncePrefix, minuteTail>>
      s3 == CopyAt(s2, 4, <<NonceChunk(minuteTail)>>)
      s4 == CopyAt(s3, 2, KeyChunks(pkey))
  IN  secretboxSealAppend(s4, 4, SubSeq(s4, 1, 4), nonce, minuteKey)

\* scratch[:144] after server.go:174-188, as nine 16-byte chunks.
CookieScratch(pb, pkey, skey, minuteTail) ==
  LET s0 == [i \in 1..ScratchUsed |-> ZeroChunk]
      \* Client short-term public key
      s1 == CopyAt(s0, 1, KeyChunks(pb.cpk))
      \* Server short-term secret key
      s2 == CopyAt(s1, 3, KeyChunks(skey))
      nonce == <<minuteNoncePrefix, minuteTail>>
      s3 == secretboxSealAppend(s2, 4, SubSeq(s2, 1, 4), nonce, minuteKey)
      \* Compressed cookie nonce
      s4 == CopyAt(s3, 4, <<NonceChunk(minuteTail)>>)
      \* Server short-term public key
  IN  CopyAt(s4, 2, KeyChunks(pkey))

\* The 200-byte datagram of server.go:190-205.
CookiePacket(pb, pkey, skey, minuteTail, cookieTail) ==
  LET scratch == CookieScratch(pb, pkey, skey, minuteTail)
      clientKey == pb.cpk
      nonce == <<cookieNoncePrefix, cookieTail>>
  IN  [to |-> pb.addr,
       len |-> CookieLen,
       magic |-> cookieMagic,
       e8 |-> pb.e24,
       e24 |-> pb.e8,
       n40 |-> cookieTail,
       kbox |-> boxSeal(SubSeq(scratch, 2, 9), nonce, clientKey, longTermSecretKey)]

\* ------------------------------------------------- checkInitiate
\* The Initiate after copy(pb[176:], initiate) and the zeroing of its tail.
ReplaceBox(pb, initiate) ==
  [shape |-> "plain", addr |-> pb.addr, len |-> pb.len, magic |-> pb.magic,
   e8 |-> pb.e8, e24 |-> pb.e24, cpk |-> pb.cpk, cnonce |-> pb.cnonce,
   cbox |-> pb.cbox, n8 |-> pb.n8, body |-> initiate]

\* The early returns of checkInitiate (valid = false); why names the check
\* that failed.
Invalid(pb, why) ==
  [valid |-> FALSE, serverShortTermKey |-> Zero32, domain |-> <<>>, pb |-> pb,
   why |-> why]

\* OpenCookie without the second secretbox.Open.
OpenCookie_CurrentOnly(pb) ==
  LET nonce == <<minuteNoncePrefix, Unchunk16(pb.cnonce)>>
  IN  secretboxOpen(pb.cbox, nonce, minuteKey)

\* secretbox.Open under minuteKey, then under prevMinuteKey.
OpenCookie(pb) ==
  LET nonce == <<minuteNoncePrefix, Unchunk16(pb.cnonce)>>
      cur == secretboxOpen(pb.cbox, nonce, minuteKey)
  IN  IF cur.ok THEN cur ELSE secretboxOpen(pb.cbox, nonce, prevMinuteKey)

\* checkInitiate without the comparison of the Vouch plaintext with pb[40:72].
checkInitiate_NoVouchCompare(pb) ==
  IF pb.len < InitiateMinLen \/ pb.magic # initiateMagic THEN Invalid(pb, "format")
  ELSE IF pb.shape # "initiate" THEN Invalid(pb, "cookie")
  ELSE LET cookie == OpenCookie(pb) IN
  IF ~cookie.ok THEN Invalid(pb, "cookie")
  ELSE IF Unchunk32(cookie.pt[1], cookie.pt[2]) # pb.cpk THEN Invalid(pb, "client")
  ELSE LET serverKey == Unchunk32(cookie.pt[3], cookie.pt[4])
           clientShortTermKey == pb.cpk
           ibox == boxOpen(pb.ibox, <<initiateNoncePrefix, pb.n8>>,
                           clientShortTermKey, serverKey)
       IN
  IF ~ibox.ok THEN Invalid(pb, "box")
  ELSE LET initiate == ibox.pt
           domain == domainToString(initiate.domain)
       IN
  IF domain = <<>> THEN Invalid(pb, "domain")
  ELSE LET clientLongTermKey == initiate.clpk
           vouch == boxOpen(initiate.vouch, <<vouchNoncePrefix, initiate.vnonce>>,
                            clientLongTermKey, longTermSecretKey)
       IN
  IF ~vouch.ok THEN Invalid(pb, "vouchbox")
  ELSE [valid |-> TRUE, serverShortTermKey |-> serverKey, domain |-> domain,
        pb |-> ReplaceBox(pb, initiate), why |-> "valid"]

\* checkInitiate with copy(pb[176:], initiate) right after the Initiate box
\* is opened, before the domain and Vouch checks.
checkInitiate_ReplacesEarly(pb) ==
  IF pb.len < InitiateMinLen \/ pb.magic # initiateMagic THEN Invalid(pb, "format")
  ELSE IF pb.shape # "initiate" THEN Invalid(pb, "cookie")
  ELSE LET cookie == OpenCookie(pb) IN
  IF ~cookie.ok THEN Invalid(pb, "cookie")
  ELSE IF Unchunk32(cookie.pt[1], cookie.pt[2]) # pb.cpk THEN Invalid(pb, "client")
  ELSE LET serverKey == Unchunk32(cookie.pt[3], cookie.pt[4])
           clientShortTermKey == pb.cpk
           ibox == boxOpen(pb.ibox, <<initiateNoncePrefix, pb.n8>>,
                           clientShortTermKey, serverKey)
       IN
  IF ~ibox.ok THEN Invalid(pb, "box")
  ELSE LET initiate == ibox.pt
           domain == domainToString(initiate.domain)
       IN
  IF domain = <<>> THEN Invalid(ReplaceBox(pb, initiate), "domain")
  ELSE LET clientLongTermKey == initiate.clpk
           vouch == boxOpen(initiate.vouch, <<vouchNoncePrefix, initiate.vnonce>>,
                            clientLongTermKey, longTermSecretKey)
       IN
  IF ~vouch.ok THEN Invalid(ReplaceBox(pb, initiate), "vouchbox")
  ELSE IF vouch.pt # pb.cpk THEN Invalid(ReplaceBox(pb, initiate), "vouch")
  ELSE [valid |-> TRUE, serverShortTermKey |-> serverKey, domain |-> domain,
        pb |-> ReplaceBox(pb, initiate), why |-> "valid"]

\* If valid, pb[176:] is replaced by the plaintext contents of the Initiate
\* box.
checkInitiate(pb) ==
  IF pb.len < InitiateMinLen \/ pb.magic # initiateMagic THEN Invalid(pb, "format")
  ELSE IF pb.shape # "initiate" THEN Invalid(pb, "cookie")
  ELSE LET cookie == OpenCookie(pb) IN
  IF ~cookie.ok THEN Invalid(pb, "cookie")
  ELSE IF Unchunk32(cookie.pt[1], cookie.pt[2]) # pb.cpk THEN Invalid(pb, "client")
  ELSE LET serverKey == Unchunk32(cookie.pt[3], cookie.pt[4])
           clientShortTermKey == pb.cpk
           ibox == boxOpen(pb.ibox, <<initiateNoncePrefix, pb.n8>>,
                           clientShortTermKey, serverKey)
       IN
  IF ~ibox.ok THEN Invalid(pb, "box")
  ELSE LET initiate == ibox.pt
           domain == domainToString(initiate.domain)
       IN
  IF domain = <<>> THEN Invalid(pb, "domain")
  ELSE LET clientLongTermKey == initiate.clpk
           vouch == boxOpen(initiate.vouch, <<vouchNoncePrefix, initiate.vnonce>>,
                            clientLongTermKey, longTermSecretKey)
       IN
  IF ~vouch.ok THEN Invalid(pb, "vouchbox")
  ELSE IF vouch.pt # pb.cpk THEN Invalid(pb, "vouch")
  ELSE [valid |-> TRUE, serverShortTermKey |-> serverKey, domain |-> domain,
        pb |-> ReplaceBox(pb, initiate), why |-> "valid"]

\* newConn: the conn and its new packetIn channel (publicKey is kept as
\* history; the code keeps only the shared key).
newConn(id, peerIdentity, publicKey, privateKey, domain) ==
  [packetIn |-> id, peerIdentity |-> peerIdentity, publicKey |-> publicKey,
   sharedKey |-> Precompute(publicKey, privateKey), domain |-> domain]

\* ------------------------------------------------- datagrams on the wire
\* What clients (and attackers) put on the socket, laid out as in doc.go.
ClientIds == 1..NumClients
\* The UDP source address of client c.
Addr(c) == <<"addr", c>>
OtherClient(c) == (c % NumClients) + 1

ServerExt == <<"xs", 0>>
ClientExt == <<"xc", 0>>

HelloVariants == {"ok", "box", "len", "magic"}

ClientHello(c, variant) ==
  LET n8 == <<"h", c>>
      srv == IF variant = "box" THEN <<"L", 2>> ELSE Pub(ServerLongTermSecret)
  IN  [shape |-> "hello", addr |-> Addr(c),
       len |-> IF variant = "len" THEN HelloLen + 1 ELSE HelloLen,
       magic |-> IF variant = "magic" THEN "QvnQ5XlX" ELSE helloMagic,
       e8 |-> ServerExt, e24 |-> ClientExt, cpk |-> <<"C", c>>, n8 |-> n8,
       hbox |-> boxSeal("zeros64", <<helloNoncePrefix, n8>>, srv, <<"c", c>>)]

\* The domain field (256 bytes in the code, 6 here): "a.b", a label length
\* of 64, and the empty name.
DomainOK == <<1, 97, 1, 98, 0, 0>>
DomainBad == <<64, 97, 1, 98, 0, 0>>
DomainEmpty == <<0, 0, 0, 0, 0, 0>>

InitiateVariants ==
  {"ok", "len", "magic", "cnonce", "hdr", "ibox", "domain", "empty",
   "clpk", "vouchpt", "vouchsrv"}

\* The Initiate a client with short-term key c and long-term key 1 builds
\* from what it finds in the Cookie box (spk, cnonce, cbox), with one field
\* changed according to variant.
BuildInitiate(c, spk, cnonce, cbox, srvPub, variant) ==
  LET cpk == <<"C", c>>
      vnonce == <<"v", c>>
      n8 == <<"i", c>>
      vouch == boxSeal(IF variant = "vouchpt" THEN <<"C", OtherClient(c)>> ELSE cpk,
                       <<vouchNoncePrefix, vnonce>>,
                       IF variant = "vouchsrv" THEN <<"L", 2>> ELSE srvPub,
                       <<"a", 1>>)
      plain == [clpk |-> IF variant = "clpk" THEN <<"A", 2>> ELSE <<"A", 1>>,
                vnonce |-> vnonce,
                vouch |-> vouch,
                domain |-> IF variant = "domain" THEN DomainBad
                           ELSE IF variant = "empty" THEN DomainEmpty
                           ELSE DomainOK,
                msg |-> <<>>]
  IN  [shape |-> "initiate", addr |-> Addr(c),
       len |-> IF variant = "len" THEN InitiateMinLen - 1 ELSE InitiateMinLen,
       magic |-> IF variant = "magic" THEN "QvnQ5XlX" ELSE initiateMagic,
       e8 |-> ServerExt, e24 |-> ClientExt,
       cpk |-> IF variant = "hdr" THEN <<"C", OtherClient(c)>> ELSE cpk,
       cnonce |-> IF variant = "cnonce" THEN NonceChunk(<<"t", 0>>) ELSE cnonce,
       cbox |-> cbox,
       n8 |-> IF variant = "ibox" THEN <<"t", 0>> ELSE n8,
       ibox |-> boxSeal(plain, <<initiateNoncePrefix, n8>>, spk, <<"c", c>>)]

\* What the client with short-term key c finds in the Cookie datagram ck.
OpenedCookie(ck, c) ==
  boxOpen(ck.kbox, <<cookieNoncePrefix, ck.n40>>, Pub(ServerLongTermSecret), <<"c", c>>)

\* The Initiate of variant v the client c builds from the Cookie datagram ck.
InitiateFor(ck, c, v) ==
  LET o == OpenedCookie(ck, c)
  IN  BuildInitiate(c, Unchunk32(o.pt[1], o.pt[2]), o.pt[3], SubSeq(o.pt, 4, 8),
                    Pub(ServerLongTermSecret), v)

\* The Initiates of the clients that can open the Cookie datagram ck.
ClientInitiates(ck) ==
  UNION { IF OpenedCookie(ck, c).ok
          THEN { InitiateFor(ck, c, v) : v \in InitiateVariants }
          ELSE {} : c \in ClientIds }

\* An Initiate anyone can build for a listener whose keys are all zero: the
\* cookie is sealed under the all-zero minute key, the Vouch to the public
\* key of the all-zero secret key.
ForgedInitiate(c) ==
  LET tail == <<"f", c>>
      sb == [key |-> Zero32, nonce |-> <<minuteNoncePrefix, tail>>,
             pt |-> KeyChunks(<<"C", c>>) \o KeyChunks(<<"s", 0>>)]
  IN  BuildInitiate(c, <<"S", 0>>, NonceChunk(tail), SboxChunks(sb), Pub(Zero32), "ok")

ClientMessage(c) ==
  [shape |-> "message", addr |-> Addr(c), len |-> 96, magic |-> messageMagic,
   e8 |-> ServerExt, e24 |-> ClientExt, cpk |-> <<"C", c>>, n8 |-> <<"n", c>>]

Junk(len, magic) == [shape |-> "junk", addr |-> Addr(0), len |-> len, magic |-> magic]

JunkInputs ==
  { Junk(63, helloMagic), Junk(100, "XXXXXXXX"), Junk(600, initiateMagic),
    Junk(200, cookieMagic) }

\* The datagrams sock.ReadFrom can return in the current state.
Inputs ==
  { ClientHello(c, v) : c \in ClientIds, v \in HelloVariants }
  \cup UNION { ClientInitiates(sent[i]) : i \in 1..Len(sent) }
  \cup { ForgedInitiate(c) : c \in ClientIds }
  \cup { ClientMessage(c) : c \in ClientIds }
  \cup JunkInputs

\* ------------------------------------------------- the other components
\* The state of the components checked on their own (the domain decoder)
\* and the values they rest at while the listener runs.
VARIABLES
  dom,                \* the bytes of a domain field, as far as chosen
  domOut              \* what domainToString made of the full field

domainVars == <<dom, domOut>>

NotDecoded == [done |-> FALSE, s |-> <<>>]

DomainIdle == dom = <<>> /\ domOut = NotDecoded

VARIABLES
  ring,               \* the Ringbuf: buf, start, size
  wIn,                \* history: the bytes Write has accepted, in order
  rOut,               \* history: the bytes Read has returned, in order
  sumW,               \* history: the sum of Write's return values
  sumR,               \* history: the sum of Read's return values
  rlast               \* history: the last call, its argument and its result

ringVars == <<ring, wIn, rOut, sumW, sumR, rlast>>

\* New creates a new ring buffer of the given size.
newRingbuf(size) == [buf |-> [i \in 1..size |-> 0], start |-> 0, size |-> 0]

NoCall == [op |-> "none", len |-> 0, ret |-> 0, before |-> 0]

RingIdle ==
  /\ ring = newRingbuf(RingCap)
  /\ wIn = <<>>
  /\ rOut = <<>>
  /\ sumW = 0
  /\ sumR = 0
  /\ rlast = NoCall

VARIABLES
  ch,                 \* the pool's channel: the buffers it holds, oldest first
  held,               \* the buffer the caller owns: <<>> or <<buffer>>
  plast               \* history: the last call and the pool count before it

poolVars == <<ch, held, plast>>

\* make([]byte, n): a slice is its backing array from its first byte on
\* (arr, whose length is the capacity) and its length.
make(n) == [arr |-> [i \in 1..n |-> 0], len |-> n]

cap(b) == Len(b.arr)

NoOp == [op |-> "none", before |-> 0, cap |-> 0]

PoolIdle == ch = <<>> /\ held = <<>> /\ plast = NoOp

VARIABLES
  now,                \* the clock; 0 is the zero time.Time
  readDeadline,       \* conn.readDeadline, 0 when not set
  writeDeadline,      \* conn.writeDeadline, 0 when not set
  call                \* the user's Read or Write call and where it stands

connVars == <<now, readDeadline, writeDeadline, call>>

NoResult == [n |-> 0, err |-> "nil"]

\* No call yet.  op: the call; pc: where it stands ("offer": in the select,
\* "wait": receiving from ioResult, "done": returned); dl: the deadline the
\* call read; src, b: the lengths of the argument and of what is left of
\* it; written: the local of Write; n, err: what the call returned.
\* History: accepted (the pump took the request on offer), late (the
\* deadline had passed when the result came), res (the pump's last
\* result), sumN (the sum of the pump's counts), at (the time of return).
NoIo ==
  [op |-> "none", pc |-> "idle", dl |-> 0, src |-> 0, b |-> 0, written |-> 0,
   n |-> 0, err |-> "nil", accepted |-> FALSE, late |-> FALSE,
   res |-> NoResult, sumN |-> 0, at |-> 0]

ConnIdle ==
  /\ now = 1
  /\ readDeadline = 0
  /\ writeDeadline = 0
  /\ call = NoIo

VARIABLES
  sched,              \* the scheduler's fields
  clock,              \* time.Now(), in units of 100 microseconds
  adj,                \* history: the calls of Adjust so far and the last one
  draw                \* history, at nanosecond resolution: the back-off
                      \* jitter of the last call

schedVars == <<sched, clock, adj, draw>>

\* Durations and times are counted in units of 100 microseconds.
Microsecond100 == 1
Millisecond == 10
Second == 10000

\* The clock at the first step; the zero time.Time, 0, is further in the
\* past than any interval the scheduler compares with.
Epoch == 100000000

\* newScheduler: the fields it does not name are zero.
newScheduler ==
  [txThrottle |-> Second, txTimeout |-> Second,
   rttAverage |-> 0, rttMeanDev |-> 0, rttDeviation |-> 0,
   rttHigh |-> 0, rttLow |-> 0, lastThrottleAdjustment |-> 0,
   wasHigh |-> FALSE, wasLow |-> FALSE, falling |-> FALSE,
   lastEdge |-> 0, lastDoubling |-> 0]

\* History of the calls of Adjust: n, how many; since, first, rtt, was: of
\* the last call, the time since lastThrottleAdjustment at its entry,
\* whether it found rttAverage zero, its sample, and the txThrottle it
\* found; inits: how many calls ran init; all50: every sample so far was
\* 50 ms and no call has reconsidered the throttle; seeded: all50 as the
\* last call found it.
NoAdjust ==
  [n |-> 0, since |-> 0, first |-> FALSE, rtt |-> 0, was |-> 0, inits |-> 0,
   all50 |-> FALSE, seeded |-> FALSE]

\* No back-off jitter was drawn: drawn, whether line 142 ran; bound, the
\* argument of its Int63n; panic, whether Int63n panicked.
NoDraw == [drawn |-> FALSE, bound |-> 0, panic |-> FALSE]

SchedIdle ==
  sched = newScheduler /\ clock = Epoch /\ adj = NoAdjust /\ draw = NoDraw

VARIABLES
  incIn,              \* a txThrottle in nanoseconds, 0 before the first step
  incOut              \* what the additive increase makes of it

incVars == <<incIn, incOut>>

IncIdle == incIn = 0 /\ incOut = 0

VARIABLES
  rlPc,               \* where readLoop is: "read" (in ReadFrom, holding pb)
                      \* or "get" (packet handed over, before the next Get)
  pumpPc,             \* where the pump is with the datagram it took:
                      \* "select", "hello", "respond", "drop", "publish",
                      \* "forward"
  resp,               \* the response buffer of the pump: <<>> or <<buffer>>
  handed,             \* history: the kinds of the datagrams handed to the pump
  returned,           \* history: datagram buffers put back in the pool
  gone                \* history: datagram buffers nothing refers to any
                      \* more that were not put back

bufVars == <<rlPc, pumpPc, resp, handed, returned, gone>>

BufIdle ==
  /\ rlPc = "read"
  /\ pumpPc = "select"
  /\ resp = <<>>
  /\ handed = <<>>
  /\ returned = 0
  /\ gone = 0

others ==
  <<domainVars, ringVars, poolVars, connVars, schedVars, incVars, bufVars>>

exceptDomain == <<ringVars, poolVars, connVars, schedVars, incVars, bufVars>>

exceptRing == <<domainVars, poolVars, connVars, schedVars, incVars, bufVars>>

exceptPool == <<domainVars, ringVars, connVars, schedVars, incVars, bufVars>>

exceptConn == <<domainVars, ringVars, poolVars, schedVars, incVars, bufVars>>

exceptSched == <<domainVars, ringVars, poolVars, connVars, incVars, bufVars>>

exceptInc == <<domainVars, ringVars, poolVars, connVars, schedVars, bufVars>>

exceptBuf ==
  <<domainVars, ringVars, held, plast, connVars, schedVars, incVars>>

OthersIdle ==
  /\ DomainIdle /\ RingIdle /\ PoolIdle /\ ConnIdle /\ SchedIdle
  /\ IncIdle /\ BufIdle

\* ------------------------------------------------- the listener
Init ==
  /\ OthersIdle
  /\ listen = TRUE
  /\ longTermSecretKey = ServerLongTermSecret
  /\ minuteKey = <<"m", 2>>
  /\ prevMinuteKey = <<"m", 1>>
  /\ conns = [k \in {} |-> NoChan]
  /\ newConnClosed = FALSE
  /\ pc = "select"
  /\ pkt = NoPkt
  /\ fwd = NoChan
  /\ created = <<>>
  /\ accepted = <<>>
  /\ sent = <<>>
  /\ born = <<>>
  /\ ticks = 0
  /\ tickPending = FALSE
  /\ timerStopped = FALSE
  /\ stopTick = -1
  /\ ev = NoEv

\* The Cookie datagram answering the Hello pb; the short-term key pair and
\* the two nonce tails are the h-th draws from crypto/rand.
HelloResponse(pb, h) ==
  LET skey == <<"s", h>>
  IN  CookiePacket(pb, Pub(skey), skey, <<"m16", h>>, <<"k16", h>>)

\* ch, ok := s.conns[string(clientShortTermKey)]
Known(clientShortTermKey) == clientShortTermKey \in DOMAIN conns

\* The new-client branch without its test of s.listen.
Admits_Always == TRUE

\* else if s.listen
Admits == listen

\* History: why the pump let p fall through (r is checkInitiate's result).
DropReason(p, r) ==
  IF p.magic = helloMagic THEN "hello"
  ELSE IF r.valid THEN "closed"
  ELSE IF r.why \in {"client", "vouchbox", "vouch"} THEN "binding"
  ELSE "check"

\* What the packet case of the pump can read and write, as it is now.
Cur ==
  [listen |-> listen, longTermSecretKey |-> longTermSecretKey,
   minuteKey |-> minuteKey, prevMinuteKey |-> prevMinuteKey, conns |-> conns,
   pc |-> pc, pkt |-> pkt, fwd |-> fwd, created |-> created, sent |-> sent,
   born |-> born, ev |-> ev]

\* pump, packet case, as the state it leaves.  A valid Hello is answered
\* with a Cookie.  A valid Initiate of a known client is forwarded and the
\* pump blocks in ch <- packet; one of a new client constructs a conn and the
\* pump blocks in s.newConn <- c.  Everything else falls through the if/else
\* chain.
PumpPacketResult(p) ==
  IF checkHello(p)
  THEN [Cur EXCEPT !.sent = Append(sent, HelloResponse(p, Len(sent) + 1)),
                   !.born = Append(born, ticks),
                   !.ev = [op |-> "packet", res |-> "cookie", why |-> "hello"]]
  ELSE LET r == checkInitiate(p)
           clientShortTermKey == r.pb.cpk
       IN
       IF r.valid /\ Known(clientShortTermKey)
       THEN [Cur EXCEPT !.pc = "forward",
                        !.pkt = r.pb,
                        !.fwd = conns[clientShortTermKey],
                        !.ev = [op |-> "packet", res |-> "forward", why |-> "valid"]]
       ELSE IF r.valid /\ Admits
       THEN LET clientLongTermKey == r.pb.body.clpk
                c == newConn(Len(created) + 1, clientLongTermKey,
                             clientShortTermKey, r.serverShortTermKey, r.domain)
            IN  [Cur EXCEPT !.created = Append(created, c),
                            !.pc = "publish",
                            !.pkt = r.pb,
                            !.ev = [op |-> "packet", res |-> "create", why |-> "valid"]]
       ELSE [Cur EXCEPT !.ev = [op |-> "packet", res |-> "drop",
                                why |-> DropReason(p, r)]]

\* readLoop, one datagram read from the socket, as the state it leaves: a
\* datagram shorter than 64 bytes is discarded (continue), any other is
\* handed to the pump (packetIn <- packet).
ReadLoopResult(p) ==
  IF p.len < MinPacketLen
  THEN [Cur EXCEPT !.ev = [op |-> "read", res |-> "discard", why |-> "short"]]
  ELSE PumpPacketResult(p)

\* readLoop reads p; the pump takes it when it is in its select.
ReadLoop(p) ==
  /\ pc # "panic"
  /\ p.len >= MinPacketLen => pc = "select"
  /\ (p.len >= MinPacketLen /\ checkHello(p)) => Len(sent) < MaxHellos
  /\ \E n \in {ReadLoopResult(p)} :
     /\ listen' = n.listen
     /\ longTermSecretKey' = n.longTermSecretKey
     /\ minuteKey' = n.minuteKey
     /\ prevMinuteKey' = n.prevMinuteKey
     /\ conns' = n.conns
     /\ pc' = n.pc
     /\ pkt' = n.pkt
     /\ fwd' = n.fwd
     /\ created' = n.created
     /\ sent' = n.sent
     /\ born' = n.born
     /\ ev' = n.ev
  /\ UNCHANGED <<newConnClosed, accepted, ticks, tickPending, timerStopped,
                 stopTick>>

\* The map without the assignment of server.go:225.
connsInsert_Skipped(clientShortTermKey, packetIn) == conns

\* s.conns[string(clientShortTermKey)] = c.packetIn
connsInsert(clientShortTermKey, packetIn) ==
  [k \in DOMAIN conns \cup {clientShortTermKey} |->
     IF k = clientShortTermKey THEN packetIn ELSE conns[k]]

\* Accept receives the conn the pump is publishing; the pump goes on to
\* s.conns[string(clientShortTermKey)] = c.packetIn.
AcceptConn ==
  /\ pc = "publish"
  /\ LET c == created[Len(created)]
         clientShortTermKey == pkt.cpk
     IN  /\ accepted' = Append(accepted, c)
         /\ conns' = connsInsert(clientShortTermKey, c.packetIn)
  /\ pc' = "select"
  /\ pkt' = NoPkt
  /\ ev' = NoEv
  /\ UNCHANGED <<listen, longTermSecretKey, minuteKey, prevMinuteKey,
                 newConnClosed, fwd, created, sent, born, ticks, tickPending,
                 timerStopped, stopTick>>

\* Accept on the closed newConn channel: "Listener closed".
AcceptClosed ==
  /\ pc # "panic"
  /\ newConnClosed
  /\ ev' = [op |-> "accept", res |-> "closed", why |-> ""]
  /\ UNCHANGED <<listen, longTermSecretKey, minuteKey, prevMinuteKey, conns,
                 newConnClosed, pc, pkt, fwd, created, accepted, sent, born,
                 ticks, tickPending, timerStopped, stopTick>>

\* Close hands the pump a stopListen; close of the closed channel panics.
PumpStopListen ==
  /\ pc = "select"
  /\ listen' = FALSE
  /\ IF newConnClosed
     THEN pc' = "panic" /\ UNCHANGED newConnClosed
     ELSE newConnClosed' = TRUE /\ UNCHANGED pc
  /\ stopTick' = (IF newConnClosed THEN stopTick ELSE ticks)
  /\ ev' = NoEv
  /\ UNCHANGED <<longTermSecretKey, minuteKey, prevMinuteKey, conns, pkt, fwd,
                 created, accepted, sent, born, ticks, tickPending, timerStopped>>

\* The 30 s ticker puts a tick in its channel (dropped when one waits).
TimerTick ==
  /\ pc # "panic"
  /\ ~timerStopped
  /\ ~tickPending
  /\ ticks < MaxTicks
  /\ tickPending' = TRUE
  /\ ev' = NoEv
  /\ UNCHANGED <<listen, longTermSecretKey, minuteKey, prevMinuteKey, conns,
                 newConnClosed, pc, pkt, fwd, created, accepted, sent, born,
                 ticks, timerStopped, stopTick>>

\* randBytes(s.minuteKey[:]): a key never drawn before.
FreshMinuteKey == <<"m", minuteKey[2] + 1>>

\* The rotation drawing a fresh minute key whether listening or not.
RotatedMinuteKey_AlwaysFresh == FreshMinuteKey

\* if s.listen { randBytes(s.minuteKey[:]) }
RotatedMinuteKey == IF listen THEN FreshMinuteKey ELSE minuteKey

\* pump, rotateMinuteKey case.  Stop does not drain the channel: a tick that
\* fired while this one was handled (late) is still delivered.
PumpRotate ==
  /\ pc = "select"
  /\ tickPending
  /\ ticks' = ticks + 1
  /\ IF ~listen /\ minuteKey = prevMinuteKey
     THEN /\ minuteKey' = Zero32
          /\ prevMinuteKey' = Zero32
          /\ longTermSecretKey' = Zero32
          /\ timerStopped' = TRUE
          /\ \E late \in BOOLEAN :
               /\ late => ticks + 1 < MaxTicks
               /\ tickPending' = late
     ELSE /\ prevMinuteKey' = minuteKey
          /\ minuteKey' = RotatedMinuteKey
          /\ tickPending' = FALSE
          /\ UNCHANGED <<longTermSecretKey, timerStopped>>
  /\ ev' = NoEv
  /\ UNCHANGED <<listen, conns, newConnClosed, pc, pkt, fwd, created, accepted,
                 sent, born, stopTick>>

Next ==
  \/ (\E p \in Inputs : ReadLoop(p)) /\ UNCHANGED others
  \/ AcceptConn /\ UNCHANGED others
  \/ AcceptClosed /\ UNCHANGED others
  \/ PumpStopListen /\ UNCHANGED others
  \/ TimerTick /\ UNCHANGED others
  \/ PumpRotate /\ UNCHANGED others

Spec == Init /\ [][Next]_<<vars, others>>

\* The listener under fair scheduling: the ticker and the pump's handling of
\* a tick are goroutine steps that happen when they can.  Accept, Close and
\* the arrival of datagrams are up to the callers and the network.
SpecFair ==
  /\ Spec
  /\ WF_<<vars, others>>(TimerTick /\ UNCHANGED others)
  /\ WF_<<vars, others>>(PumpRotate /\ UNCHANGED others)

\* ------------------------------------------------- the domain field
\* The domain field is 256 bytes in the code and MaxDomain bytes here; its
\* bytes are drawn from DomainBytes: the terminator, label lengths 1 and 2,
\* a length above 63, and a letter.
DomainBytes == {0, 1, 2, 64, 97}

\* The Initiate p with the domain field of its box set to d.
WithDomain(p, d) == [p EXCEPT !.ibox.pt.domain = d]

\* One more byte of the field is chosen.
DomainByte(b) ==
  /\ Len(dom) < MaxDomain
  /\ dom' = Append(dom, b)
  /\ UNCHANGED <<domOut, vars, exceptDomain>>

\* domainToString is applied to the full field.
DomainDecode ==
  /\ Len(dom) = MaxDomain
  /\ ~domOut.done
  /\ domOut' = [done |-> TRUE, s |-> domainToString(dom)]
  /\ UNCHANGED <<dom, vars, exceptDomain>>

\* Client 1 sends its Hello.
DomainHello ==
  /\ sent = <<>>
  /\ ReadLoop(ClientHello(1, "ok"))
  /\ UNCHANGED <<domainVars, exceptDomain>>

\* Client 1 sends the Initiate built from its Cookie, with the field as its
\* domain.
DomainInitiate ==
  /\ Len(dom) = MaxDomain
  /\ Len(sent) = 1
  /\ ReadLoop(WithDomain(InitiateFor(sent[1], 1, "ok"), dom))
  /\ UNCHANGED <<domainVars, exceptDomain>>

DomainNext ==
  \/ \E b \in DomainBytes : DomainByte(b)
  \/ DomainDecode
  \/ DomainHello
  \/ DomainInitiate
  \/ AcceptConn /\ UNCHANGED <<domainVars, exceptDomain>>

SpecDomain == Init /\ [][DomainNext]_<<vars, others>>

\* ------------------------------------------------- the ring buffer
Min(a, b) == IF a < b THEN a ELSE b

\* copy(dst, src) with dst = buf[from:to] (0-based, to exclusive): the
\* array after the copy and the number of bytes copied.
copyInto(buf, from, to, src) ==
  LET n == Min(to - from, Len(src))
  IN  [buf |-> [i \in 1..Len(buf) |->
                 IF i - 1 >= from /\ i - 1 < from + n THEN src[i - from] ELSE buf[i]],
       n |-> n]

\* Write with "if" in place of "for": one copy, no second segment.
WriteLoop_OnePass(r, b, written) ==
  IF Len(b) > 0 /\ r.size < Len(r.buf)
  THEN LET start == (r.start + r.size) % Len(r.buf)
           end0 == start + Len(r.buf) - r.size
           end == IF end0 > Len(r.buf) THEN Len(r.buf) ELSE end0
           c == copyInto(r.buf, start, end, b)
       IN  [r |-> [r EXCEPT !.buf = c.buf, !.size = r.size + c.n],
            ret |-> written + c.n]
  ELSE [r |-> r, ret |-> written]

\* The loop of Write, from the state r with b left to write.
RECURSIVE WriteLoop(_, _, _)
WriteLoop(r, b, written) ==
  IF Len(b) > 0 /\ r.size < Len(r.buf)
  THEN LET start == (r.start + r.size) % Len(r.buf)
           end0 == start + Len(r.buf) - r.size
           end == IF end0 > Len(r.buf) THEN Len(r.buf) ELSE end0
           c == copyInto(r.buf, start, end, b)
       IN  WriteLoop([r EXCEPT !.buf = c.buf, !.size = r.size + c.n],
                     SubSeq(b, c.n + 1, Len(b)), written + c.n)
  ELSE [r |-> r, ret |-> written]

\* Write appends as many bytes of b as possible to the ring buffer.
RingbufWrite(r, b) == WriteLoop(r, b, 0)

\* The loop of Read, from the state r with room bytes of b left to fill;
\* out is what b holds so far.
RECURSIVE RingbufReadLoop(_, _, _)

\* Read without r.size -= n.
RingbufReadLoop_KeepsSize(r, room, out) ==
  IF room > 0 /\ r.size > 0
  THEN LET end0 == r.start + r.size
           end == IF end0 > Len(r.buf) THEN Len(r.buf) ELSE end0
           n == Min(room, end - r.start)
       IN  RingbufReadLoop([r EXCEPT !.start = (r.start + n) % Len(r.buf)],
                           room - n,
                           out \o SubSeq(r.buf, r.start + 1, r.start + n))
  ELSE [r |-> r, ret |-> Len(out), data |-> out]

\* Read without the advance of r.start.
RingbufReadLoop_KeepsStart(r, room, out) ==
  IF room > 0 /\ r.size > 0
  THEN LET end0 == r.start + r.size
           end == IF end0 > Len(r.buf) THEN Len(r.buf) ELSE end0
           n == Min(room, end - r.start)
       IN  RingbufReadLoop([r EXCEPT !.size = r.size - n],
                           room - n,
                           out \o SubSeq(r.buf, r.start + 1, r.start + n))
  ELSE [r |-> r, ret |-> Len(out), data |-> out]

RingbufReadLoop(r, room, out) ==
  IF room > 0 /\ r.size > 0
  THEN LET end0 == r.start + r.size
           end == IF end0 > Len(r.buf) THEN Len(r.buf) ELSE end0
           n == Min(room, end - r.start)
       IN  RingbufReadLoop([r EXCEPT !.start = (r.start + n) % Len(r.buf),
                                     !.size = r.size - n],
                           room - n,
                           out \o SubSeq(r.buf, r.start + 1, r.start + n))
  ELSE [r |-> r, ret |-> Len(out), data |-> out]

\* Read reads as many bytes as possible from the ring buffer into b, a
\* slice of length len.
RingbufRead(r, len) == RingbufReadLoop(r, len, <<>>)

Size(r) == r.size

\* The byte strings a caller hands to Write.
RingBytes == {1, 2}
WriteArgs == UNION { [1..n -> RingBytes] : n \in 0..MaxArg }

\* A call of Write(b).
RingWrite(b) ==
  /\ Len(wIn) + Len(b) <= MaxBytes
  /\ \E w \in {RingbufWrite(ring, b)} :
       /\ ring' = w.r
       /\ wIn' = wIn \o SubSeq(b, 1, w.ret)
       /\ sumW' = sumW + w.ret
       /\ rlast' = [op |-> "write", len |-> Len(b), ret |-> w.ret,
                    before |-> Size(ring)]
  /\ UNCHANGED <<rOut, sumR>>

\* A call of Read(b) with len(b) = len.
RingRead(len) ==
  /\ \E d \in {RingbufRead(ring, len)} :
       /\ ring' = d.r
       /\ rOut' = rOut \o d.data
       /\ sumR' = sumR + d.ret
       /\ rlast' = [op |-> "read", len |-> len, ret |-> d.ret,
                    before |-> Size(ring)]
  /\ UNCHANGED <<wIn, sumW>>

RingNext ==
  \/ (\E b \in WriteArgs : RingWrite(b)) /\ UNCHANGED <<vars, exceptRing>>
  \/ (\E len \in 0..MaxArg : RingRead(len)) /\ UNCHANGED <<vars, exceptRing>>

SpecRing == Init /\ [][RingNext]_<<vars, others>>

\* ------------------------------------------------- the buffer pools
\* freelist.List (package freelist) and buf (package curvecp): a channel of
\* PoolCap buffers of one slot size.  A caller takes a buffer with Get,
\* writes into it and reslices it, or makes a buffer of its own, and hands
\* it back with Put; the buffer then belongs to the pool.
PoolCap == 1024

\* select { case b.ch <- buf: default: }
offer(c, b) == IF Len(c) < PoolCap THEN Append(c, b) ELSE c

\* select { case buf := <-b.ch: return buf; default: }; make([]byte, b.size)
ListGet(c) ==
  IF c # <<>> THEN [buf |-> Head(c), ch |-> Tail(c)]
  ELSE [buf |-> make(SlotSize), ch |-> c]

ListPut_AnyCap(c, b) == offer(c, make(cap(b)))

ListPut(c, b) ==
  IF cap(b) = SlotSize
  THEN offer(c, [arr |-> [i \in 1..cap(b) |-> 0], len |-> cap(b)])
  ELSE c

bufGet(c) ==
  IF c # <<>> THEN [buf |-> Head(c), ch |-> Tail(c)]
  ELSE [buf |-> make(SlotSize), ch |-> c]

bufPut(c, b) ==
  IF cap(b) = SlotSize
  THEN offer(c, [b EXCEPT !.len = cap(b)])
  ELSE c

\* The caller takes a buffer; r is what Get returns and leaves pooled.
Acquire(r) ==
  /\ held = <<>>
  /\ ch' = r.ch
  /\ held' = <<r.buf>>
  /\ plast' = [op |-> "get", before |-> Len(ch), cap |-> cap(r.buf)]

\* The caller hands its buffer back; c is the channel after Put.
Release(c) ==
  /\ ch' = c
  /\ held' = <<>>
  /\ plast' = [op |-> "put", before |-> Len(ch), cap |-> cap(held[1])]

ListRelease == held # <<>> /\ Release(ListPut(ch, held[1]))

bufRelease ==
  /\ held # <<>>
  /\ Len(ch) < MaxPooled
  /\ Release(bufPut(ch, held[1]))

\* The caller allocates a buffer of its own: make([]byte, n).
CallerMake(n) ==
  /\ held = <<>>
  /\ held' = <<make(n)>>
  /\ plast' = [op |-> "caller", before |-> Len(ch), cap |-> n]
  /\ UNCHANGED ch

\* The caller writes a byte into its buffer: p[i-1] = 1.
CallerWrite(i) ==
  /\ held # <<>>
  /\ i <= held[1].len
  /\ held[1].arr[i] = 0
  /\ held' = <<[held[1] EXCEPT !.arr[i] = 1]>>
  /\ plast' = [op |-> "caller", before |-> Len(ch), cap |-> cap(held[1])]
  /\ UNCHANGED ch

\* The caller reslices its buffer: p[lo:hi], lo <= hi <= cap(p).
CallerReslice(lo, hi) ==
  /\ held # <<>>
  /\ lo <= hi
  /\ hi <= cap(held[1])
  /\ <<lo, hi>> # <<0, held[1].len>>
  /\ held' = <<[arr |-> SubSeq(held[1].arr, lo + 1, cap(held[1])),
                len |-> hi - lo]>>
  /\ plast' = [op |-> "caller", before |-> Len(ch), cap |-> cap(held[1]) - lo]
  /\ UNCHANGED ch

Caller ==
  \/ \E n \in 0..(SlotSize + 1) : CallerMake(n)
  \/ \E i \in 1..(SlotSize + 1) : CallerWrite(i)
  \/ \E lo \in 0..(SlotSize + 1), hi \in 0..(SlotSize + 1) :
       CallerReslice(lo, hi)

PoolNext ==
  \/ Acquire(ListGet(ch)) /\ UNCHANGED <<vars, exceptPool>>
  \/ ListRelease /\ UNCHANGED <<vars, exceptPool>>
  \/ Caller /\ UNCHANGED <<vars, exceptPool>>

SpecPool == Init /\ [][PoolNext]_<<vars, others>>

BufNext ==
  \/ Acquire(bufGet(ch)) /\ UNCHANGED <<vars, exceptPool>>
  \/ bufRelease /\ UNCHANGED <<vars, exceptPool>>
  \/ Caller /\ UNCHANGED <<vars, exceptPool>>

SpecBuf == Init /\ [][BufNext]_<<vars, others>>

\* ------------------------------------------------- conn.Read and conn.Write
\* One user goroutine calls Read and Write on a conn; the calls meet the
\* conn's pump on the unbuffered channels readRequest, writeRequest and
\* ioResult.  The pump's side of the rendezvous is the specified one: it
\* takes an offered request and later sends one result for it.
deadlineExceeded == "deadline exceeded"

Errors == {"nil", "pump error"}

\* case <-deadline: the channel of time.After(d.Sub(time.Now())) is nil for
\* a zero deadline and holds a value once the deadline has passed.
DeadlineReady_AlsoWaiting(c) ==
  c.pc \in {"offer", "wait"} /\ c.dl # 0 /\ now >= c.dl

DeadlineReady(c) == c.pc = "offer" /\ c.dl # 0 /\ now >= c.dl

Done(c, n, err) == [c EXCEPT !.pc = "done", !.n = n, !.err = err, !.at = now]

StartCall(op, dl, len) ==
  [NoIo EXCEPT !.op = op, !.pc = "offer", !.dl = dl, !.src = len, !.b = len]

\* written += res.n
WriteAccumulate_LastOnly(written, n) == n

WriteAccumulate(written, n) == written + n

\* Read after the request was taken: res := <-c.ioResult; return
ReadResult(c, res) == Done([c EXCEPT !.res = res], res.n, res.err)

\* Write after the request was taken: the rest of the loop body and the
\* loop test.
WriteResult(c, res) ==
  LET w == WriteAccumulate(c.written, res.n)
      c2 == [c EXCEPT !.res = res, !.written = w, !.b = c.b - res.n,
                      !.sumN = c.sumN + res.n]
  IN IF res.err # "nil" THEN Done(c2, w, res.err)
     ELSE IF c2.b > 0 THEN [c2 EXCEPT !.pc = "offer", !.accepted = FALSE]
     ELSE Done(c2, w, "nil")

Returned == call.pc \in {"idle", "done"}

SetDeadline(t) ==
  /\ Returned
  /\ readDeadline' = t
  /\ writeDeadline' = t
  /\ UNCHANGED <<now, call>>

SetReadDeadline(t) ==
  /\ Returned
  /\ readDeadline' = t
  /\ UNCHANGED <<now, writeDeadline, call>>

SetWriteDeadline(t) ==
  /\ Returned
  /\ writeDeadline' = t
  /\ UNCHANGED <<now, readDeadline, call>>

\* Read(b) up to its select.
ReadCall(len) ==
  /\ Returned
  /\ call' = StartCall("read", readDeadline, len)
  /\ UNCHANGED <<now, readDeadline, writeDeadline>>

\* Write(b) up to its first select, or to its return when b is empty.
WriteCall(len) ==
  /\ Returned
  /\ call' = IF len > 0 THEN StartCall("write", writeDeadline, len)
             ELSE Done(StartCall("write", writeDeadline, len), 0, "nil")
  /\ UNCHANGED <<now, readDeadline, writeDeadline>>

\* case <-deadline: return written, deadlineExceeded
DeadlineReturn ==
  /\ DeadlineReady(call)
  /\ call' = Done(call, call.written, deadlineExceeded)
  /\ UNCHANGED <<now, readDeadline, writeDeadline>>

\* case c.readRequest <- b: / case c.writeRequest <- b: the pump takes it.
PumpAccept ==
  /\ call.pc = "offer"
  /\ call' = [call EXCEPT !.pc = "wait", !.accepted = TRUE]
  /\ UNCHANGED <<now, readDeadline, writeDeadline>>

\* res := <-c.ioResult: the pump reports a count within the request, and
\* an error or none; the call goes on from there.
PumpResult(res) ==
  /\ call.pc = "wait"
  /\ res.n <= call.b
  /\ \E c \in {[call EXCEPT !.late = (call.dl # 0 /\ now >= call.dl)]} :
       call' = IF call.op = "read" THEN ReadResult(c, res)
               ELSE WriteResult(c, res)
  /\ UNCHANGED <<now, readDeadline, writeDeadline>>

Tick ==
  /\ now < MaxTime
  /\ now' = now + 1
  /\ UNCHANGED <<readDeadline, writeDeadline, call>>

ConnNext ==
  \/ (\E t \in 0..MaxTime : SetDeadline(t)) /\ UNCHANGED <<vars, exceptConn>>
  \/ (\E t \in 0..MaxTime : SetReadDeadline(t))
       /\ UNCHANGED <<vars, exceptConn>>
  \/ (\E t \in 0..MaxTime : SetWriteDeadline(t))
       /\ UNCHANGED <<vars, exceptConn>>
  \/ (\E len \in 0..MaxIo : ReadCall(len)) /\ UNCHANGED <<vars, exceptConn>>
  \/ (\E len \in 0..MaxIo : WriteCall(len)) /\ UNCHANGED <<vars, exceptConn>>
  \/ DeadlineReturn /\ UNCHANGED <<vars, exceptConn>>
  \/ PumpAccept /\ UNCHANGED <<vars, exceptConn>>
  \/ (\E n \in 0..MaxIo, err \in Errors : PumpResult([n |-> n, err |-> err]))
       /\ UNCHANGED <<vars, exceptConn>>
  \/ Tick /\ UNCHANGED <<vars, exceptConn>>

SpecConn == Init /\ [][ConnNext]_<<vars, others>>

\* ------------------------------------------------- scheduler.Adjust
\* Go's integer division truncates towards zero.
Quot(a, b) == IF a >= 0 THEN a \div b ELSE -((-a) \div b)

abs(d) == IF d < 0 THEN -d ELSE d

\* const timeConstant = 2^51 square nanoseconds, in square units.
timeConstant == 225180

\* s.txThrottle * s.txThrottle * s.txThrottle / timeConstant, for a throttle
\* under 16 ms: below 2^21 ns the quotient is under 4096 ns, from there on
\* the product wraps in 64 bits and the quotient is within 4096 ns of
\* zero; either way it is less than one unit.
cubeTerm(n) == 0

\* rand.Int63n(n) returns a value in [0, n): the least and the greatest.
Int63n(n) == IF n > 1 THEN {0, n - 1} ELSE {0}

\* init(rtt); the fields it does not assign keep their values.
init(s, rtt, t) ==
  [s EXCEPT !.txThrottle = rtt, !.rttAverage = rtt,
            !.rttDeviation = rtt \div 2, !.rttHigh = rtt, !.rttLow = rtt,
            !.lastThrottleAdjustment = t]

\* Lines 88-105: the Jacobson/Karels estimator, txTimeout, and the top and
\* bottom of the congestion cycle.
estimate(s, rtt) ==
  LET averageDelta == rtt - s.rttAverage
      rttAverage == s.rttAverage + Quot(averageDelta, 8)
      meanDevDelta == abs(averageDelta) - s.rttMeanDev
      lowDelta == rtt - s.rttLow
  IN [s EXCEPT
        !.rttAverage = rttAverage,
        !.rttMeanDev = s.rttMeanDev + Quot(meanDevDelta, 4),
        !.txTimeout = rttAverage + 4 * s.rttDeviation + 8 * s.txThrottle,
        !.rttHigh = s.rttHigh + Quot(rtt - s.rttHigh, 1024),
        !.rttLow = IF lowDelta > 0 THEN s.rttLow + Quot(lowDelta, 8192)
                   ELSE s.rttLow + Quot(lowDelta, 256)]

\* Lines 110-113: the slow restart after more than ten seconds.
slowRestart(s, sinceAdjust, r) ==
  IF sinceAdjust > 10 * Second
  THEN [s EXCEPT !.txThrottle = Second + r]
  ELSE s

\* Lines 119-131: the additive increase of the transmission rate.
increase(s) ==
  IF s.txThrottle > Microsecond100
  THEN IF s.txThrottle < 16 * Millisecond
       THEN [s EXCEPT !.txThrottle = s.txThrottle - cubeTerm(s.txThrottle)]
       ELSE [s EXCEPT !.txThrottle =
               s.txThrottle \div
                 (1 + (s.txThrottle * s.txThrottle) \div timeConstant)]
  ELSE s

\* Lines 133-146: the turn of the congestion cycle; r is the jitter.
cycle(s, t, r) ==
  IF s.falling
  THEN IF s.wasLow THEN [s EXCEPT !.falling = FALSE] ELSE s
  ELSE IF s.wasHigh
       THEN [s EXCEPT !.txThrottle = s.txThrottle + r, !.lastEdge = t,
                      !.falling = TRUE]
       ELSE s

\* Lines 148-149.
marks(s) ==
  [s EXCEPT !.wasLow = s.rttAverage < s.rttLow,
            !.wasHigh = s.rttAverage > s.rttHigh + 5 * Millisecond]

\* time.Since: the zero time is further back than any duration.
Since(t, past) == IF past = 0 THEN Epoch ELSE t - past

\* Lines 153-168: the occasional doubling of the send rate.
double(s, t) ==
  IF s.txThrottle > Microsecond100
  THEN LET hold ==
             IF Since(t, s.lastEdge) < 60 * Second
             THEN s.lastDoubling + 4 * s.txThrottle + 64 * s.txTimeout
                    + 5 * Second
             ELSE s.lastDoubling + 4 * s.txThrottle + 2 * s.txTimeout
       IN IF t < hold THEN s
          ELSE [s EXCEPT !.txThrottle = s.txThrottle \div 2,
                         !.lastDoubling = t, !.lastEdge = t]
  ELSE s

\* The jitters Adjust may draw in state s at time t for sample rtt: r1 for
\* the slow restart, r2 for the back-off.
Jitter1 == Int63n(Second \div 8)

Jitter2 == 0..1

\* The throttle cycle run at every call.
throttle_Always(s, t, r1, j2) ==
  LET sinceAdjust == Since(t, s.lastThrottleAdjustment)
      a == slowRestart(s, sinceAdjust, r1)
      b == increase([a EXCEPT !.lastThrottleAdjustment = t])
  IN double(marks(cycle(b, t, 0)), t)

\* Lines 107-169: the throttle cycle, every 16 packet intervals.  j2 picks
\* the least or the greatest value Int63n(txThrottle/4) can return.
throttle(s, t, r1, j2) ==
  LET sinceAdjust == Since(t, s.lastThrottleAdjustment)
  IN IF sinceAdjust >= 16 * s.txThrottle
     THEN LET a == slowRestart(s, sinceAdjust, r1)
              b == increase([a EXCEPT !.lastThrottleAdjustment = t])
              n == b.txThrottle \div 4
              c == cycle(b, t, IF j2 = 0 \/ n < 1 THEN 0 ELSE n - 1)
          IN double(marks(c), t)
     ELSE s

\* Adjust(rtt) at time t.
Adjust(s, rtt, t, r1, j2) ==
  LET s1 == IF s.rttAverage = 0 THEN init(s, rtt, t) ELSE s
  IN throttle(estimate(s1, rtt), t, r1, j2)

\* The RTT samples and the intervals between calls the scenarios draw from.
RttSamples == {1, 100, 500, 3000, 20000}

Gaps == {0, 200, 5000, 110000, 610000}

AdjustCall(rtt, gap, r1, j2) ==
  /\ adj.n < MaxAdjust
  /\ clock' = clock + gap
  /\ sched' = Adjust(sched, rtt, clock + gap, r1, j2)
  /\ adj' = [n |-> adj.n + 1,
             since |-> Since(clock + gap, sched.lastThrottleAdjustment),
             first |-> sched.rttAverage = 0,
             rtt |-> rtt,
             was |-> sched.txThrottle,
             inits |-> adj.inits + (IF sched.rttAverage = 0 THEN 1 ELSE 0),
             all50 |-> /\ rtt = 50 * Millisecond
                       /\ \/ adj.n = 0
                          \/ /\ adj.all50
                             /\ clock + gap - sched.lastThrottleAdjustment
                                  < 16 * sched.txThrottle,
             seeded |-> adj.all50]
  /\ UNCHANGED draw

SchedNext ==
  (\E rtt \in RttSamples, gap \in Gaps, r1 \in Jitter1, j2 \in Jitter2 :
     AdjustCall(rtt, gap, r1, j2))
  /\ UNCHANGED <<vars, exceptSched>>

SpecSched == Init /\ [][SchedNext]_<<vars, others>>

\* ------------------------------------------------- the additive increase, in nanoseconds
\* time.Duration is an int64 of nanoseconds; its * wraps and its / truncates
\* towards zero.  The products of lines 126 and 129 are computed here on
\* little-endian digits of 12 bits, wrapped to 64 bits and read as signed.
Limb == 4096

MicrosecondNs == 1000
MillisecondNs == 1000000
SecondNs == 1000000000

\* The digits of n, 0 <= n < 2^31.
ToLimbs(n) == <<n % Limb, (n \div Limb) % Limb, n \div (Limb * Limb)>>

RECURSIVE CoefSum(_, _, _, _)
\* The sum of the a[i] * b[j] with i + j = k + 1, from i on.
CoefSum(a, b, k, i) ==
  IF i > Len(a) THEN 0
  ELSE (IF k + 1 - i \in 1..Len(b) THEN a[i] * b[k + 1 - i] ELSE 0)
         + CoefSum(a, b, k, i + 1)

RECURSIVE Carry(_, _, _)
\* The digits of the number with coefficients c, from digit i on.
Carry(c, i, carry) ==
  IF i > Len(c) THEN <<>>
  ELSE <<(c[i] + carry) % Limb>> \o Carry(c, i + 1, (c[i] + carry) \div Limb)

\* a * b, unbounded.
MulLimbs(a, b) ==
  Carry([k \in 1..(Len(a) + Len(b)) |-> CoefSum(a, b, k, 1)], 1, 0)

\* int64(x) / 2^51 for the number x mod 2^64 with digits x: bits 51..63 of
\* x, as a quotient truncated towards zero of a two's complement value.
Quo51(x) ==
  LET hi == (x[5] \div 8) + 512 * (x[6] % 16)
      low == \E i \in 1..4 : x[i] # 0
      rest == IF low \/ x[5] % 8 # 0 THEN 1 ELSE 0
  IN IF hi < 4096 THEN hi ELSE -(8192 - hi - rest)

\* s.txThrottle * s.txThrottle * s.txThrottle / timeConstant
cubeQuo(n) == Quo51(MulLimbs(MulLimbs(ToLimbs(n), ToLimbs(n)), ToLimbs(n)))

\* s.txThrottle * s.txThrottle / timeConstant
squareQuo(n) == Quo51(MulLimbs(ToLimbs(n), ToLimbs(n)))

\* Lines 119-131 on txThrottle = n nanoseconds, n < 2^31.
additiveIncrease(n) ==
  IF n > 100 * MicrosecondNs
  THEN IF n < 16 * MillisecondNs
       THEN n - cubeQuo(n)
       ELSE n \div (1 + squareQuo(n))
  ELSE n

\* The throttles the step is applied to: the ends of the two branches, the
\* values around the first wrap of the cube, and a grid.
ThrottleInputs ==
  {100001, 2097151, 2097152, 2642245, 2642246, 12500000, 15999999, 16000000,
   50000000, 1000000000, 2147483647}
    \cup {k * 161803 : k \in 1..MaxGrid}

IncreaseStep(n) ==
  /\ incIn' = n
  /\ incOut' = additiveIncrease(n)

IncNext ==
  (\E n \in ThrottleInputs : IncreaseStep(n)) /\ UNCHANGED <<vars, exceptInc>>

SpecIncrease == Init /\ [][IncNext]_<<vars, others>>

\* ------------------------------------------------- scheduler.Adjust, in nanoseconds
\* The same code on nanosecond values, for throttles and samples too small
\* for the unit of 100 microseconds.  The clock of this specification
\* stays within 2^31 ns (about 2.1 s) of its start, so that every value is
\* an integer the checker can hold.
newSchedulerNs ==
  [newScheduler EXCEPT !.txThrottle = SecondNs, !.txTimeout = SecondNs]

\* x > k * c and x >= k * c, without forming the product.
GreaterThan(x, k, c) == x \div k > c \/ (x \div k = c /\ x % k > 0)

AtLeast(x, k, c) == x \div k >= c

\* Lines 110-113.
slowRestartNs(s, sinceAdjust, r) ==
  IF GreaterThan(sinceAdjust, 10, SecondNs)
  THEN [s EXCEPT !.txThrottle = SecondNs + r]
  ELSE s

\* Lines 119-131.
increaseNs(s) == [s EXCEPT !.txThrottle = additiveIncrease(s.txThrottle)]

\* Lines 148-149.
marksNs(s) ==
  [s EXCEPT !.wasLow = s.rttAverage < s.rttLow,
            !.wasHigh = s.rttAverage > s.rttHigh + 5 * MillisecondNs]

\* Lines 153-168.  A zero lastEdge or lastDoubling is the zero time, more
\* than 60 s back; less than 2^31 ns, and so less than 5 s, have passed
\* since any other lastDoubling.
doubleNs(s, t) ==
  IF s.txThrottle > 100 * MicrosecondNs
  THEN LET recentEdge ==
             s.lastEdge # 0 /\ ~AtLeast(t - s.lastEdge, 60, SecondNs)
           holding ==
             /\ s.lastDoubling # 0
             /\ \/ recentEdge
                \/ t - s.lastDoubling < 4 * s.txThrottle + 2 * s.txTimeout
       IN IF holding THEN s
          ELSE [s EXCEPT !.txThrottle = s.txThrottle \div 2,
                         !.lastDoubling = t, !.lastEdge = t]
  ELSE s

\* Lines 107-169.  The result is the scheduler the call leaves and what
\* became of the back-off jitter: Int63n panics on a bound that is not
\* positive, and the call ends there.
throttleNs(s, t, r1, j2) ==
  LET sinceAdjust == t - s.lastThrottleAdjustment
  IN IF sinceAdjust >= 16 * s.txThrottle
     THEN LET a == slowRestartNs(s, sinceAdjust, r1)
              b == increaseNs([a EXCEPT !.lastThrottleAdjustment = t])
              drawn == ~b.falling /\ b.wasHigh
              n == b.txThrottle \div 4
          IN IF drawn /\ n <= 0
             THEN [s |-> b, draw |-> [drawn |-> TRUE, bound |-> n,
                                      panic |-> TRUE]]
             ELSE [s |-> doubleNs(marksNs(cycle(b, t, IF j2 = 0 THEN 0
                                                      ELSE n - 1)), t),
                   draw |-> [drawn |-> drawn, bound |-> IF drawn THEN n ELSE 0,
                             panic |-> FALSE]]
     ELSE [s |-> s, draw |-> NoDraw]

\* Adjust(rtt) at time t.
AdjustNs(s, rtt, t, r1, j2) ==
  LET s1 == IF s.rttAverage = 0 THEN init(s, rtt, t) ELSE s
  IN throttleNs(estimate(s1, rtt), t, r1, j2)

\* The samples and the intervals between calls, in nanoseconds.
RttSamplesNs == {1, 4, 100000, 50000000}

GapsNs == {0, 16, 1000000, 100000000}

Jitter1Ns == Int63n(SecondNs \div 8)

AdjustNsCall(rtt, gap, r1, j2) ==
  /\ adj.n < MaxAdjust
  /\ ~draw.panic
  /\ clock' = clock + gap
  /\ \E s \in {IF adj.n = 0 THEN newSchedulerNs ELSE sched} :
     \E r \in {AdjustNs(s, rtt, clock + gap, r1, j2)} :
       /\ sched' = r.s
       /\ draw' = r.draw
       /\ adj' = [n |-> adj.n + 1,
                  since |-> Since(clock + gap, s.lastThrottleAdjustment),
                  first |-> s.rttAverage = 0,
                  rtt |-> rtt,
                  was |-> s.txThrottle,
                  inits |-> adj.inits + (IF s.rttAverage = 0 THEN 1 ELSE 0),
                  all50 |-> FALSE,
                  seeded |-> FALSE]

SchedNsNext ==
  (\E rtt \in RttSamplesNs, gap \in GapsNs, r1 \in Jitter1Ns, j2 \in Jitter2 :
     AdjustNsCall(rtt, gap, r1, j2))
  /\ UNCHANGED <<vars, exceptSched>>

SpecSchedNs == Init /\ [][SchedNsNext]_<<vars, others>>

\* ------------------------------------------------- the datagram buffers
\* readLoop and the packet case of server.pump, as far as they take buffers
\* from freelist.Packets (the channel ch) and put them back.  What the pump
\* makes of a datagram is its kind: "hello" (checkHello holds), "forward"
\* (a valid Initiate of a known client), "publish" (one of a new client
\* while listening) or "drop" (anything else).
DatagramKinds == {"hello", "forward", "publish", "drop"}

\* n < 64: continue, with the same pb.
ReadShort ==
  /\ rlPc = "read"
  /\ UNCHANGED <<ch, bufVars>>

\* packetIn <- packet{addr, pb}: the pump takes it in its select and runs up
\* to its first call of the pool or to where it blocks.
ReadHand(kind) ==
  /\ rlPc = "read"
  /\ pumpPc = "select"
  /\ Len(handed) < MaxDatagrams
  /\ rlPc' = "get"
  /\ pumpPc' = kind
  /\ handed' = Append(handed, kind)
  /\ UNCHANGED <<ch, resp, returned, gone>>

\* pb = freelist.Packets.Get()
ReadGet ==
  /\ rlPc = "get"
  /\ ch' = ListGet(ch).ch
  /\ rlPc' = "read"
  /\ UNCHANGED <<pumpPc, resp, handed, returned, gone>>

\* resp := freelist.Packets.Get(); resp = resp[:200]
PumpHelloGet ==
  /\ pumpPc = "hello"
  /\ ch' = ListGet(ch).ch
  /\ resp' = <<[ListGet(ch).buf EXCEPT !.len = Min(1, SlotSize)]>>
  /\ pumpPc' = "respond"
  /\ UNCHANGED <<rlPc, handed, returned, gone>>

\* s.sock.WriteTo(resp, packet.Addr); freelist.Packets.Put(resp); the end of
\* the case leaves packet.buf behind.
PumpHelloPut ==
  /\ pumpPc = "respond"
  /\ ch' = ListPut(ch, resp[1])
  /\ resp' = <<>>
  /\ pumpPc' = "select"
  /\ gone' = gone + 1
  /\ UNCHANGED <<rlPc, handed, returned>>

\* Neither a Hello nor a valid Initiate: the case ends, packet.buf is left
\* behind.
PumpDrop ==
  /\ pumpPc = "drop"
  /\ pumpPc' = "select"
  /\ gone' = gone + 1
  /\ UNCHANGED <<ch, rlPc, resp, handed, returned>>

\* s.newConn <- c is received by Accept; the conn got the keys and the
\* domain, not the packet; the case ends, packet.buf is left behind.
PumpPublished ==
  /\ pumpPc = "publish"
  /\ pumpPc' = "select"
  /\ gone' = gone + 1
  /\ UNCHANGED <<ch, rlPc, resp, handed, returned>>

DatagramNext ==
  \/ ReadShort /\ UNCHANGED <<vars, exceptBuf>>
  \/ (\E kind \in DatagramKinds : ReadHand(kind)) /\ UNCHANGED <<vars, exceptBuf>>
  \/ ReadGet /\ UNCHANGED <<vars, exceptBuf>>
  \/ PumpHelloGet /\ UNCHANGED <<vars, exceptBuf>>
  \/ PumpHelloPut /\ UNCHANGED <<vars, exceptBuf>>
  \/ PumpDrop /\ UNCHANGED <<vars, exceptBuf>>
  \/ PumpPublished /\ UNCHANGED <<vars, exceptBuf>>

SpecBuffers == Init /\ [][DatagramNext]_<<vars, others>>

\* ------------------------------------------------- properties
\* The short-term keys of the conns in a sequence of conns.
KeysOf(cs) == { cs[i].publicKey : i \in 1..Len(cs) }

\* No two conns of the sequence are for the same client short-term key.
OnePerKey(cs) == \A i, j \in 1..Len(cs) : cs[i].publicKey = cs[j].publicKey => i = j

\* p is an Initiate that passes every check in the current state.
ValidInitiate(p) == ~checkHello(p) /\ checkInitiate(p).valid

\* The client whose Hello the i-th Cookie answers, and the Initiate of
\* variant v it builds from that Cookie.
Owners(i) == { c \in ClientIds : OpenedCookie(sent[i], c).ok }
Echo(i, c, v) == InitiateFor(sent[i], c, v)

\* Rotations handled since the i-th Cookie was sent.
Age(i) == ticks - born[i]

\* The result n of handling a datagram sends nothing, offers nothing to
\* Accept or to a conn, and leaves the map, the flag and the keys alone.
NoEffect(n) ==
  /\ n.sent = sent
  /\ n.pc = pc
  /\ n.pkt = pkt
  /\ n.fwd = fwd
  /\ n.created = created
  /\ n.conns = conns
  /\ n.listen = listen
  /\ n.minuteKey = minuteKey
  /\ n.prevMinuteKey = prevMinuteKey
  /\ n.longTermSecretKey = longTermSecretKey

\* C1 (Idempotent Initiate): newConn is called at most once per client
\* short-term key and Accept returns those conns in order, each once; when
\* the pump takes a valid Initiate for a key that has no entry in conns
\* (while listening) it constructs one conn for that key and offers it on
\* newConn; when it takes a valid Initiate for a key that has an entry it
\* constructs nothing, offers nothing to Accept, and offers the packet, box
\* replaced by plaintext, on the channel of the conn constructed for that key.
C1_IdempotentInitiate ==
  /\ OnePerKey(created)
  /\ Len(accepted) = Len(created) - (IF pc = "publish" THEN 1 ELSE 0)
  /\ accepted = SubSeq(created, 1, Len(accepted))
  /\ pc = "select" =>
       \A p \in Inputs : ValidInitiate(p) =>
         LET n == PumpPacketResult(p) IN
         IF Known(p.cpk)
         THEN /\ n.created = created
              /\ n.pc = "forward"
              /\ n.fwd = conns[p.cpk]
              /\ \E i \in 1..Len(accepted) :
                   /\ accepted[i].publicKey = p.cpk
                   /\ accepted[i].packetIn = n.fwd
              /\ n.pkt = checkInitiate(p).pb
              /\ n.pkt.shape = "plain"
         ELSE listen =>
              /\ n.created = Append(created, n.created[Len(n.created)])
              /\ n.created[Len(n.created)].publicKey = p.cpk
              /\ n.pc = "publish"

\* C1 witness: one conn was constructed and accepted, and a later valid
\* Initiate for its key is being offered on its channel.
C1_Witness ==
  /\ pc = "forward"
  /\ ev.res = "forward"
  /\ Len(created) = 1
  /\ Len(accepted) = 1
  /\ pkt.cpk = created[1].publicKey
  /\ fwd = created[1].packetIn

\* C2 (Minute-key window): the cookie of every Cookie datagram sent opens
\* under the current minute key while no rotation was handled since, under
\* the previous minute key after one rotation (and the echoing Initiate is
\* valid in both cases); after two or more rotations it opens under neither
\* and no Initiate carrying it is valid, closed or not.
C2_MinuteKeyWindow ==
  \A i \in 1..Len(sent) : \A c \in Owners(i) :
    LET pb == Echo(i, c, "ok")
        nonce == <<minuteNoncePrefix, Unchunk16(pb.cnonce)>>
    IN  /\ Age(i) = 0 => secretboxOpen(pb.cbox, nonce, minuteKey).ok
        /\ Age(i) = 1 => secretboxOpen(pb.cbox, nonce, prevMinuteKey).ok
        /\ Age(i) <= 1 => checkInitiate(pb).valid
        /\ Age(i) >= 2 =>
             /\ ~OpenCookie(pb).ok
             /\ \A v \in InitiateVariants : ~checkInitiate(Echo(i, c, v)).valid

\* C2 witness: a cookie that has seen two rotations, with close in between,
\* is rejected.
C2_Witness ==
  \E i \in 1..Len(sent) : \E c \in Owners(i) :
    /\ Age(i) = 2
    /\ ~listen
    /\ ~OpenCookie(Echo(i, c, "ok")).ok

\* C3 (Cookie round-trip): the box of the i-th Cookie datagram, opened by
\* the client it answers, holds exactly the i-th server short-term public
\* key, the i-th minute nonce tail, and the secretbox of the client's
\* short-term public key followed by the i-th server short-term secret key;
\* and while fewer than two rotations were handled since, checkInitiate
\* accepts the Initiate echoing that nonce tail and secretbox and returns
\* that same server short-term secret key for that same client key.
C3_CookieRoundTrip ==
  \A i \in 1..Len(sent) : \A c \in Owners(i) :
    LET o == OpenedCookie(sent[i], c)
        skey == <<"s", i>>
        payload == KeyChunks(<<"C", c>>) \o KeyChunks(skey)
        pb == Echo(i, c, "ok")
        r == checkInitiate(pb)
    IN  /\ Len(o.pt) = 8
        /\ Unchunk32(o.pt[1], o.pt[2]) = Pub(skey)
        /\ o.pt[3] = NonceChunk(<<"m16", i>>)
        /\ \A j \in 4..8 :
             /\ o.pt[j].tag = "sbox"
             /\ o.pt[j].part = j - 3
             /\ o.pt[j].sb.nonce = <<minuteNoncePrefix, <<"m16", i>>>>
             /\ o.pt[j].sb.pt = payload
        /\ Age(i) <= 1 =>
             /\ OpenCookie(pb).ok
             /\ OpenCookie(pb).pt = payload
             /\ r.valid
             /\ r.serverShortTermKey = skey
             /\ r.pb.cpk = <<"C", c>>

\* C3 witness: the conn accepted for a client carries the key shared by the
\* client's short-term key and the server short-term key of its Cookie,
\* recovered one rotation after the Cookie was sent.
C3_Witness ==
  \E i \in 1..Len(sent) : \E c \in Owners(i) :
    /\ Age(i) = 1
    /\ Len(accepted) >= 1
    /\ accepted[Len(accepted)].publicKey = <<"C", c>>
    /\ accepted[Len(accepted)].sharedKey = Precompute(<<"C", c>>, <<"s", i>>)

\* The Initiate variants that change one of the bound fields of an otherwise
\* valid Initiate: the Vouch plaintext, the client long-term public key, the
\* client short-term key in the header.
Tampered == {"vouchpt", "clpk", "hdr"}

\* C4 (Vouch binding): checkInitiate reports valid only when the key in the
\* opened cookie, the header's client short-term key and the opened Vouch
\* plaintext are one key and the Vouch opens under the asserted client
\* long-term key and the server long-term secret key; and the Initiate a
\* client builds from its Cookie with the Vouch plaintext, the client
\* long-term public key or the header's client short-term key changed is
\* never valid and is handled without any effect.
C4_VouchBinding ==
  /\ \A p \in Inputs : checkInitiate(p).valid =>
       LET cookie == OpenCookie(p)
           serverKey == Unchunk32(cookie.pt[3], cookie.pt[4])
           initiate == boxOpen(p.ibox, <<initiateNoncePrefix, p.n8>>, p.cpk,
                               serverKey).pt
           vouch == initiate.vouch
       IN  /\ cookie.ok
           /\ Unchunk32(cookie.pt[1], cookie.pt[2]) = p.cpk
           /\ vouch.k = {SecretOf(initiate.clpk), longTermSecretKey}
           /\ vouch.nonce = <<vouchNoncePrefix, initiate.vnonce>>
           /\ vouch.pt = p.cpk
  /\ \A i \in 1..Len(sent) : \A c \in Owners(i) : \A v \in Tampered :
       /\ Echo(i, c, v) # Echo(i, c, "ok")
       /\ ~checkInitiate(Echo(i, c, v)).valid
       /\ pc = "select" => NoEffect(PumpPacketResult(Echo(i, c, v)))

\* C4 witness: an Initiate failing one of the binding checks was dropped
\* while its cookie was still good, before any conn existed.
C4_Witness ==
  /\ ev.res = "drop"
  /\ ev.why = "binding"
  /\ listen
  /\ created = <<>>
  /\ \E i \in 1..Len(sent) : \E c \in Owners(i) :
       Age(i) <= 1 /\ checkInitiate(Echo(i, c, "ok")).valid

\* C5 (Stateless Hello): handling a datagram with the Hello magic leaves the
\* map, the flag, the keys, the conns constructed and the pump's position as
\* they are; when the listener is listening and the datagram is a 224-byte
\* Hello whose box opens, exactly one datagram is sent, a 200-byte Cookie to
\* the Hello's source address; in every other case, after close in
\* particular, nothing is sent.
C5_StatelessHello ==
  \A p \in Inputs :
    (p.magic = helloMagic /\ (pc = "select" \/ p.len < MinPacketLen)) =>
      LET n == ReadLoopResult(p)
          opens == /\ p.len = HelloLen
                   /\ boxOpen(HelloBoxAt(p), <<helloNoncePrefix, p.n8>>, p.cpk,
                              longTermSecretKey).ok
      IN  /\ NoEffect([n EXCEPT !.sent = sent])
          /\ IF listen /\ opens
             THEN /\ Len(n.sent) = Len(sent) + 1
                  /\ SubSeq(n.sent, 1, Len(sent)) = sent
                  /\ n.sent[Len(n.sent)].len = CookieLen
                  /\ n.sent[Len(n.sent)].magic = cookieMagic
                  /\ n.sent[Len(n.sent)].to = p.addr
             ELSE n.sent = sent

\* C5 witness: a Hello was answered with a Cookie before close, and a Hello
\* handled after close was dropped.
C5_Witness ==
  /\ ~listen
  /\ ev.res = "drop"
  /\ ev.why = "hello"
  /\ Len(sent) >= 1
  /\ sent[1].len = CookieLen

\* C6 (Close stops admission only): once the pump has handled stopListen, no
\* conn waits on newConn and every Accept returns the closed-listener error;
\* every conn accepted keeps its entry in the map; a valid Initiate for a
\* key that has an entry is offered to that entry's channel, and one for a
\* key without an entry constructs nothing and adds no entry.
C6_CloseStopsAdmission ==
  newConnClosed =>
    /\ pc # "publish"
    /\ Len(accepted) = Len(created)
    /\ \A i \in 1..Len(accepted) :
         /\ Known(accepted[i].publicKey)
         /\ conns[accepted[i].publicKey] = accepted[i].packetIn
    /\ pc = "select" =>
         \A p \in Inputs : ValidInitiate(p) =>
           LET n == PumpPacketResult(p) IN
           IF Known(p.cpk)
           THEN /\ n.pc = "forward"
                /\ n.fwd = conns[p.cpk]
                /\ n.conns = conns
                /\ n.created = created
           ELSE NoEffect(n)

\* C6 witness: after close, with the keys still in place, a valid Initiate
\* for the key of an accepted conn is being offered on that conn's channel.
C6_Witness ==
  /\ newConnClosed
  /\ minuteKey # Zero32
  /\ pc = "forward"
  /\ ev.res = "forward"
  /\ Len(accepted) >= 1
  /\ fwd = conns[pkt.cpk]

\* C7 (Deterministic shutdown): of the rotations the pump handles, the first
\* after it has taken Close's stopListen copies the current minute key into
\* the previous one and draws no fresh key, and the second sets both minute
\* keys and the long-term secret key to zero and stops the ticker; a
\* rotation handled before any stopListen leaves no key zero, the long-term
\* secret key as it is and the ticker running.
C7_DeterministicShutdown ==
  [][ ticks' = ticks + 1 =>
        /\ stopTick < 0 =>
             /\ Zero32 \notin {minuteKey', prevMinuteKey', longTermSecretKey'}
             /\ longTermSecretKey' = longTermSecretKey
             /\ ~timerStopped'
        /\ (stopTick >= 0 /\ ticks = stopTick) =>
             /\ prevMinuteKey' = minuteKey
             /\ minuteKey' = minuteKey
             /\ minuteKey # Zero32
             /\ longTermSecretKey' = longTermSecretKey
             /\ ~timerStopped'
        /\ (stopTick >= 0 /\ ticks = stopTick + 1) =>
             /\ minuteKey' = Zero32
             /\ prevMinuteKey' = Zero32
             /\ longTermSecretKey' = Zero32
             /\ timerStopped' ]_vars

\* C7 witness: the second rotation after close has zeroed the keys and
\* stopped the ticker.
C7_Witness ==
  /\ stopTick >= 0
  /\ ticks = stopTick + 2
  /\ timerStopped
  /\ minuteKey = Zero32

\* C8 (Message routing): a Message datagram whose client short-term key has
\* an entry in conns is offered by the pump on that entry's channel.
C8_MessageRouting ==
  pc = "select" =>
    \A p \in Inputs : (p.magic = messageMagic /\ Known(p.cpk)) =>
      LET n == PumpPacketResult(p)
      IN  n.pc = "forward" /\ n.fwd = conns[p.cpk]

\* C9 (Connections-map invariant): conns has an entry for a client
\* short-term key exactly when a conn was constructed for it (no conn ever
\* signals its end: nothing sends on endConn).
C9_ConnectionsMapInvariant ==
  DOMAIN conns = KeysOf(created)

\* p fails readLoop's length test or every check of the pump.
Dropped(p) ==
  \/ p.len < MinPacketLen
  \/ p.magic \notin {helloMagic, initiateMagic, messageMagic}
  \/ p.magic = helloMagic /\ ~checkHello(p)
  \/ p.magic = initiateMagic /\ ~checkInitiate(p).valid

\* C10 (Silent drop): a datagram shorter than 64 bytes, or with a magic
\* that is none of Hello's, Initiate's and Message's, or failing a check of checkHello
\* or checkInitiate, is handled without any effect: nothing sent, nothing
\* offered to Accept or a conn, map, flag and keys as before; checkInitiate
\* hands back the bytes it was given whenever it reports invalid, and the
\* plaintext replacement whenever it reports valid.
C10_SilentDrop ==
  \A p \in Inputs :
    /\ (Dropped(p) /\ (pc = "select" \/ p.len < MinPacketLen)) =>
         \A n \in {ReadLoopResult(p)} :
           NoEffect(n) /\ n.ev.res \in {"discard", "drop"}
    /\ p.magic = initiateMagic =>
         \A r \in {checkInitiate(p)} :
           IF r.valid THEN r.pb.shape = "plain" ELSE r.pb = p

\* C10 witness: after a Cookie was sent, a datagram failing a magic,
\* length, cookie, box or domain check was dropped, nothing having been
\* offered or constructed.
C10_Witness ==
  /\ ev.res = "drop"
  /\ ev.why = "check"
  /\ pc = "select"
  /\ created = <<>>
  /\ Len(sent) >= 1

\* The field d read as the encoding demands: (length, label) segments with
\* lengths 1..63, ended by a zero length byte inside the field.
RECURSIVE Segments(_)
Segments(d) ==
  IF Len(d) = 0 THEN [ok |-> FALSE, labels |-> <<>>]
  ELSE IF d[1] = 0 THEN [ok |-> TRUE, labels |-> <<>>]
  ELSE IF d[1] > 63 \/ d[1] + 1 > Len(d) THEN [ok |-> FALSE, labels |-> <<>>]
  ELSE LET r == Segments(SubSeq(d, d[1] + 2, Len(d)))
       IN  [ok |-> r.ok,
            labels |-> IF r.ok THEN <<SubSeq(d, 2, d[1] + 1)>> \o r.labels ELSE <<>>]

\* C11 (Domain decoding): domainToString applied to a full domain field
\* yields the labels joined with "." when the field is a run of (length,
\* label) segments with lengths 1..63 ended by a zero length byte inside the
\* field, and the invalid mark (the empty string) for every other field; and
\* no conn is constructed and no map entry made from an Initiate whose
\* field is not such a run.
C11_DomainDecoding ==
  /\ domOut.done =>
        IF Segments(dom).ok
        THEN domOut.s = Join(Segments(dom).labels)
        ELSE domOut.s = <<>>
  /\ (Len(dom) = MaxDomain /\ ~Segments(dom).ok) =>
        created = <<>> /\ DOMAIN conns = {}

\* The bytes the ring holds, oldest first.
RingContents(r) ==
  [i \in 1..r.size |-> r.buf[((r.start + i - 1) % Len(r.buf)) + 1]]

\* C12 (Ring buffer conservation and bounds): after any calls of Write and
\* Read the sum of Write's return values less the sum of Read's is Size(),
\* the size is within 0..N and start within 0..N-1.
C12_RingConservation ==
  /\ sumW - sumR = Size(ring)
  /\ 0 <= ring.size /\ ring.size <= Len(ring.buf)
  /\ 0 <= ring.start /\ ring.start < Len(ring.buf)
  /\ Len(ring.buf) = RingCap

\* C12 witness: the ring was filled, partly read, and written again across
\* the end of the array.
C12_Witness ==
  /\ rlast.op = "write"
  /\ rlast.ret >= 1
  /\ sumR >= 1
  /\ ring.start > 0
  /\ ring.start + ring.size > Len(ring.buf)

\* C13 (Ring buffer transfer counts): Write(b) returns min(|b|, N - size)
\* and raises the size by that, Read(dst) returns min(|dst|, size) and
\* lowers the size by that, wrapped or not; each call returns.
C13_RingTransferCounts ==
  /\ rlast.op = "write" =>
       /\ rlast.ret = Min(rlast.len, Len(ring.buf) - rlast.before)
       /\ Size(ring) = rlast.before + rlast.ret
  /\ rlast.op = "read" =>
       /\ rlast.ret = Min(rlast.len, rlast.before)
       /\ Size(ring) = rlast.before - rlast.ret
  /\ \A b \in WriteArgs : RingbufWrite(ring, b).ret >= 0
  /\ \A len \in 0..MaxArg : RingbufRead(ring, len).ret >= 0

\* C13 witness: a Write longer than the free space, whose copy wrapped
\* around the end of the array, filled the ring.
C13_Witness ==
  /\ rlast.op = "write"
  /\ rlast.len > rlast.ret
  /\ rlast.ret >= 2
  /\ ring.start > 0
  /\ ring.size = Len(ring.buf)

\* C14 (Ring buffer FIFO): the bytes Read has returned, followed by the
\* bytes the ring holds, are the bytes Write has accepted, in order; so
\* what Read returned is a prefix of what Write accepted.
C14_RingFIFO ==
  /\ rOut \o RingContents(ring) = wIn
  /\ Len(rOut) <= Len(wIn)
  /\ rOut = SubSeq(wIn, 1, Len(rOut))

\* C14 witness: a Read returned bytes lying on both sides of the end of
\* the array, and they differ.
C14_Witness ==
  /\ rlast.op = "read"
  /\ rlast.ret >= 2
  /\ ring.start > 0
  /\ ring.start < rlast.ret
  /\ rOut[Len(rOut)] # rOut[Len(rOut) - 1]

\* C15: Buffer pool zeroing.  After any sequence of Get and Put calls, Put
\* of buffers the caller wrote into or truncated included, the buffer Get
\* returns has length and capacity equal to the slot size and every byte
\* zero.
C15_PoolZeroing ==
  plast.op = "get" =>
    /\ held[1].len = SlotSize
    /\ cap(held[1]) = SlotSize
    /\ \A i \in 1..cap(held[1]) : held[1].arr[i] = 0

\* C16: Buffer pool release rule.  Put adds exactly one buffer to the pool
\* when the buffer's capacity is the slot size and the pool holds fewer
\* than 1024 buffers, and leaves the pool as it is otherwise; Get removes
\* one pooled buffer when there is one and allocates otherwise; the pool
\* holds 0..1024 buffers and neither call blocks.
C16_PoolReleaseRule ==
  /\ Len(ch) \in 0..1024
  /\ plast.op = "put" =>
       IF plast.cap = SlotSize /\ plast.before < 1024
       THEN Len(ch) = plast.before + 1
       ELSE Len(ch) = plast.before
  /\ plast.op = "get" =>
       IF plast.before > 0
       THEN Len(ch) = plast.before - 1
       ELSE Len(ch) = 0 /\ held = <<make(SlotSize)>>
  /\ \A b \in {held[i] : i \in 1..Len(held)} :
       \E after \in {ListPut(ch, b)} :
         IF cap(b) = SlotSize /\ Len(ch) < 1024
         THEN Len(after) = Len(ch) + 1 /\ SubSeq(after, 1, Len(ch)) = ch
         ELSE after = ch
  /\ held = <<>> => ENABLED Acquire(ListGet(ch))
  /\ held # <<>> => ENABLED ListRelease

\* A Put of a slot-sized buffer that found the pool full, and a Put of a
\* truncated slot-sized buffer that was pooled, have both happened.
C16_Witness ==
  /\ plast.op = "put"
  /\ plast.before = 1024
  /\ plast.cap = SlotSize
  /\ Len(ch) = 1024

C19_TimeoutDominatesThrottle ==
  adj.n > 0 => sched.txTimeout >= 8 * sched.txThrottle

\* C20: Idle slow restart.  Whenever Adjust is called more than 10 s after
\* lastThrottleAdjustment, txThrottle lies in [1 s, 1 s + 125 ms) when the
\* call returns.
C20_IdleSlowRestart ==
  (adj.n > 0 /\ ~adj.first /\ adj.since > 10 * Second) =>
    /\ sched.txThrottle >= Second
    /\ sched.txThrottle < Second + 125 * Millisecond

\* C21: First-sample initialization.  When the first call of Adjust
\* returns, txThrottle, rttAverage, rttHigh and rttLow equal the sample and
\* rttMeanDev is half of it; over any sequence of samples the
\* initialization runs exactly once.
C21_FirstSampleInit ==
  /\ adj.n = 1 =>
       /\ sched.txThrottle = adj.rtt
       /\ sched.rttAverage = adj.rtt
       /\ sched.rttHigh = adj.rtt
       /\ sched.rttLow = adj.rtt
       /\ sched.rttMeanDev = adj.rtt \div 2
  /\ adj.n >= 1 => adj.inits = 1

\* C22: The throttle is only reconsidered every 16 intervals.  A call of
\* Adjust other than the first that comes less than 16 * txThrottle after
\* lastThrottleAdjustment leaves txThrottle, falling, wasHigh, wasLow,
\* lastThrottleAdjustment, lastEdge and lastDoubling as they are; a call
\* that comes at least 16 * txThrottle and at most 10 s after it, on a
\* scheduler seeded with 50 ms samples, leaves txThrottle strictly lower.
C22_ThrottleEvery16 ==
  [][(adj'.n = adj.n + 1 /\ adj.n >= 1) =>
       \A since \in {clock' - sched.lastThrottleAdjustment} :
         /\ since < 16 * sched.txThrottle =>
              /\ sched'.txThrottle = sched.txThrottle
              /\ sched'.falling = sched.falling
              /\ sched'.wasHigh = sched.wasHigh
              /\ sched'.wasLow = sched.wasLow
              /\ sched'.lastThrottleAdjustment = sched.lastThrottleAdjustment
              /\ sched'.lastEdge = sched.lastEdge
              /\ sched'.lastDoubling = sched.lastDoubling
         /\ (adj.all50 /\ since >= 16 * sched.txThrottle
               /\ since <= 10 * Second) =>
              sched'.txThrottle < sched.txThrottle
     ]_schedVars

\* A scheduler seeded with two 50 ms samples, the second within 16
\* intervals and leaving the throttle alone, got a third call 16 intervals
\* or more after the first and came out with a lower throttle.
C22_Witness ==
  /\ adj.n = 3
  /\ adj.seeded
  /\ adj.was = 50 * Millisecond
  /\ adj.since >= 16 * adj.was
  /\ adj.since <= 10 * Second
  /\ sched.txThrottle < adj.was

\* C23: The additive increase never raises the throttle.  For every
\* txThrottle above 100 microseconds the step leaves a value that is at
\* most the value before and above zero, in 64-bit signed nanosecond
\* arithmetic with wraparound.
C23_IncreaseNeverRaises ==
  incIn > 100 * MicrosecondNs => (incOut <= incIn /\ incOut > 0)

\* C24: Buffer return.  Every datagram buffer readLoop takes from the pool
\* and hands to the listener is released to the pool exactly once by the
\* component that handles it last: once the pump is back in its select,
\* every buffer handed to it that no conn was given has been put back.
C24_BufferReturn ==
  /\ returned <= Len(handed)
  /\ pumpPc = "select" => returned = Len(handed)

\* C25: Listener pump progress.  Under fair scheduling the pump never
\* blocks forever while it handles a datagram: whenever it is held in
\* s.newConn <- c or in ch <- packet it gets back to its select, also when
\* nobody calls Accept and when the Initiate goes to an existing conn.
C25_PumpProgress == (pc \in {"publish", "forward"}) ~> (pc = "select")

\* C27: Close is safe to repeat.  For any number of Close calls, in any
\* interleaving with Accept and datagrams, the newConn channel is closed at
\* most once and the pump does not crash; after the first Close the
\* listener stays not accepting.
C27_CloseRepeatable ==
  /\ pc # "panic"
  /\ newConnClosed => ~listen

\* C26: The throttle stays positive.  After any sequence of Adjust calls
\* with positive samples and a clock that does not go back, txThrottle is
\* above zero, and whenever the back-off jitter is drawn its bound
\* txThrottle/4 is at least 1: the random source is never called with a
\* bound that is not positive.
C26_ThrottlePositive ==
  adj.n > 0 =>
    /\ sched.txThrottle > 0
    /\ draw.drawn => draw.bound >= 1
    /\ ~draw.panic

====
